---- MODULE Spec2Model ----
(***************************************************************************)
(* Model of taskify's TokenHelper (JWT access / refresh tokens backed by   *)
(* Redis) and of RedisHelper's distributed lock.                           *)
(*                                                                         *)
(* Time is counted in ticks, TicksPerSec ticks to the second, because the  *)
(* code mixes three resolutions: datetime.now() (sub-second), the integer  *)
(* second claims jwt.encode writes, and the whole-second TTLs of Redis.    *)
(***************************************************************************)
EXTENDS Integers, Sequences, FiniteSets, TLC

VARIABLES
    now,            \* the wall clock, in ticks
    hasStore,       \* TokenHelper.redis_helper is configured (not None)
    store,          \* the Redis keyspace: key -> [val, expireAt, persist]
    accessTokens,   \* the strings generate_token has returned so far
    refreshTokens,  \* the strings generate_refresh_token has returned so far
    reissued,       \* history: unexpired refresh tokens followed by a later
                    \*   generate_refresh_token call for the same user
    superseded      \* history: those of them whose Redis entry the later call
                    \*   replaced by another string

tokenVars == <<now, hasStore, store, accessTokens, refreshTokens, reissued, superseded>>

VARIABLES
    lockCall,       \* per caller: its acquire_lock call (locals, position, result)
    nextId          \* the identifiers uuid4 has handed out so far, as a counter

lockVars == <<lockCall, nextId>>

VARIABLES
    issueCall       \* per caller: its generate_refresh_token call, which encodes
                    \*   the token and then makes one round trip to Redis

issueVars == <<issueCall>>

-----------------------------------------------------------------------------
(* Bounds of the model *)

\* the clock stops after MaxTick ticks, the helper mints at most MaxIssued
\* distinct strings, uuid4 is called at most MaxIds times
MaxTick == 4
MaxIssued == 2
MaxIds == 2

\* datetime.now() resolves TicksPerSec instants within a second
TicksPerSec == 2

(* TokenHelper's configured lifetimes, in seconds (scaled down) *)
AccessLife == 1
RefreshLife == 2

Subjects == {"u1", "u2"}
TokenTypes == {"access", "refresh"}

\* the processes that call the helpers concurrently
Callers == {"a", "b"}

(* user_data dictionaries a caller passes to generate_token *)
NoData == [k \in {} |-> ""]
UserDatas == {NoData, [role |-> "admin"], [type |-> "refresh"]}

(* The three ways a round trip to Redis ends: answered, lost before the    *)
(* server applied it, lost after the server applied it.  The last two      *)
(* raise in redis-py.                                                      *)
NetOutcomes == {"ok", "lost_request", "lost_reply"}
Raises(net) == net # "ok"
Applied(net) == net # "lost_request"

None == [none |-> TRUE]

-----------------------------------------------------------------------------
(* The Redis server *)

Entry(val, ttl) == [val |-> val, expireAt |-> now + ttl * TicksPerSec, persist |-> FALSE]
Persistent(val) == [val |-> val, expireAt |-> 0, persist |-> TRUE]

Put(st, key, entry) == (key :> entry) @@ st
Drop(st, key) == [k \in DOMAIN st \ {key} |-> st[k]]

(* keys whose TTL has run out at time t are gone *)
Purge(st, t) == [k \in {x \in DOMAIN st : st[x].persist \/ t < st[x].expireAt} |-> st[k]]

-----------------------------------------------------------------------------
(* RedisHelper: every accessor swallows the client's exception *)

RefreshKey(user_id) == <<"refresh_token", user_id>>
BlacklistKey(token) == <<"token_blacklist", token>>

\* RedisHelper.set: [st |-> keyspace after the call, ret |-> returned bool]
redis_set(st, key, value, ex, net) ==
    [st  |-> IF Applied(net)
             THEN Put(st, key, IF ex # 0 THEN Entry(value, ex) ELSE Persistent(value))
             ELSE st,
     ret |-> ~Raises(net)]

\* RedisHelper.get
redis_get(st, key, net) ==
    IF Raises(net) THEN None
    ELSE IF key \in DOMAIN st THEN st[key].val ELSE None

\* RedisHelper.delete
redis_delete(st, key, net) ==
    [st  |-> IF Applied(net) THEN Drop(st, key) ELSE st,
     ret |-> ~Raises(net)]

\* RedisHelper.exists
redis_exists(st, key, net) ==
    IF Raises(net) THEN FALSE ELSE key \in DOMAIN st

-----------------------------------------------------------------------------
(* PyJWT, as TokenHelper uses it *)

\* payload.update(user_data)
Update(payload, user_data) == user_data @@ payload

\* jwt.encode: datetime claims become whole seconds; the string is a
\* function of the claims alone (HS256 is deterministic)
Timegm(t) == t \div TicksPerSec
JwtEncode(payload) ==
    [k \in DOMAIN payload |->
        IF k \in {"exp", "iat"} THEN Timegm(payload[k]) ELSE payload[k]]

\* a string that carries plausible claims under a signature the key did not make
Forged == [user_id |-> "u1", exp |-> MaxTick + 1, iat |-> 0, type |-> "access",
           sig |-> "forged"]

\* a string signed with the key whose claims hold no exp
NoExpiry == [user_id |-> "u1", iat |-> 0, type |-> "access"]

\* jwt.decode(token, key, algorithms, options={"verify_exp": verify_exp}) at time t;
\* exp is compared only when the claims hold one
JwtDecode(token, t, verify_exp) ==
    IF "sig" \in DOMAIN token
    THEN [ok |-> FALSE, err |-> "InvalidSignatureError"]
    ELSE IF verify_exp /\ "exp" \in DOMAIN token /\ token["exp"] * TicksPerSec <= t
    THEN [ok |-> FALSE, err |-> "ExpiredSignatureError"]
    ELSE [ok |-> TRUE, payload |-> token]

-----------------------------------------------------------------------------
(* TokenHelper.  The methods that touch Redis take the keyspace st they    *)
(* run against, so that calls can be composed; the clock and the           *)
(* configuration are read from the state.                                  *)

ReservedClaims == {"user_id", "exp", "iat", "type"}

generate_token(user_id, user_data) ==
    JwtEncode(Update([user_id |-> user_id,
                      exp |-> now + AccessLife * TicksPerSec,
                      iat |-> now,
                      type |-> "access"], user_data))

\* a generate_refresh_token that registers only a user's first token
refresh_token_first_kept(st, user_id, net) ==
    LET token == JwtEncode([user_id |-> user_id,
                            exp |-> now + RefreshLife * TicksPerSec,
                            iat |-> now,
                            type |-> "refresh"])
    IN [token |-> token,
        st |-> IF hasStore /\ RefreshKey(user_id) \notin DOMAIN st
               THEN redis_set(st, RefreshKey(user_id), token, RefreshLife, net).st
               ELSE st]

\* [token |-> the string returned, st |-> keyspace after the call]
generate_refresh_token(st, user_id, net) ==
    LET token == JwtEncode([user_id |-> user_id,
                            exp |-> now + RefreshLife * TicksPerSec,
                            iat |-> now,
                            type |-> "refresh"])
    IN [token |-> token,
        st |-> IF hasStore
               THEN redis_set(st, RefreshKey(user_id), token, RefreshLife, net).st
               ELSE st]

is_token_blacklisted(st, token, net) ==
    IF ~hasStore THEN FALSE
    ELSE redis_exists(st, BlacklistKey(token), net)

\* a verify_token that also requires a refresh token to be the registered one
verify_token_registered(st, token, token_type, net) ==
    IF hasStore /\ is_token_blacklisted(st, token, net) THEN FALSE
    ELSE LET d == JwtDecode(token, now, TRUE)
         IN IF ~d.ok THEN FALSE
            ELSE IF d.payload["type"] # token_type THEN FALSE
            ELSE IF hasStore /\ token_type = "refresh"
                    /\ redis_get(st, RefreshKey(d.payload["user_id"]), net) # token
            THEN FALSE
            ELSE TRUE

\* a verify_token that decodes without checking exp
verify_token_any_age(st, token, token_type, net) ==
    IF hasStore /\ is_token_blacklisted(st, token, net) THEN FALSE
    ELSE LET d == JwtDecode(token, now, FALSE)
         IN IF ~d.ok THEN FALSE
            ELSE IF d.payload["type"] # token_type THEN FALSE
            ELSE TRUE

verify_token(st, token, token_type, net) ==
    IF hasStore /\ is_token_blacklisted(st, token, net) THEN FALSE
    ELSE LET d == JwtDecode(token, now, TRUE)
         IN IF ~d.ok THEN FALSE
            ELSE IF d.payload["type"] # token_type THEN FALSE
            ELSE TRUE

\* a decode_token that does not consult the blacklist
decode_token_unchecked(st, token, net) ==
    LET d == JwtDecode(token, now, TRUE)
    IN IF ~d.ok THEN None ELSE d.payload

\* a decode_token that hands the decoder's error to its caller
decode_token_reporting(st, token, net) ==
    IF hasStore /\ is_token_blacklisted(st, token, net) THEN None
    ELSE LET d == JwtDecode(token, now, TRUE)
         IN IF ~d.ok THEN [none |-> TRUE, err |-> d.err] ELSE d.payload

\* the payload, or None
decode_token(st, token, net) ==
    IF hasStore /\ is_token_blacklisted(st, token, net) THEN None
    ELSE LET d == JwtDecode(token, now, TRUE)
         IN IF ~d.ok THEN None ELSE d.payload

\* a refresh_access_token that does not compare with the registry
refresh_unregistered(st, refresh_token, n1, n2, n3) ==
    IF ~verify_token(st, refresh_token, "refresh", n1) THEN None
    ELSE LET payload == decode_token(st, refresh_token, n2)
         IN IF payload = None THEN None
            ELSE LET user_id == payload["user_id"]
                 IN IF user_id = "" THEN None
                    ELSE generate_token(user_id,
                            [k \in DOMAIN payload \ ReservedClaims |-> payload[k]])

\* a refresh_access_token that takes a missing registry entry for a match
refresh_missing_entry_ok(st, refresh_token, n1, n2, n3) ==
    IF ~verify_token(st, refresh_token, "refresh", n1) THEN None
    ELSE LET payload == decode_token(st, refresh_token, n2)
         IN IF payload = None THEN None
            ELSE LET user_id == payload["user_id"]
                 IN IF user_id = "" THEN None
                    ELSE IF hasStore
                            /\ redis_get(st, RefreshKey(user_id), n3) \notin {refresh_token, None}
                    THEN None
                    ELSE generate_token(user_id,
                            [k \in DOMAIN payload \ ReservedClaims |-> payload[k]])

\* a refresh_access_token that hands the whole old payload to generate_token
refresh_keeping_claims(st, refresh_token, n1, n2, n3) ==
    IF ~verify_token(st, refresh_token, "refresh", n1) THEN None
    ELSE LET payload == decode_token(st, refresh_token, n2)
         IN IF payload = None THEN None
            ELSE LET user_id == payload["user_id"]
                 IN IF user_id = "" THEN None
                    ELSE IF hasStore
                            /\ redis_get(st, RefreshKey(user_id), n3) # refresh_token
                    THEN None
                    ELSE generate_token(user_id, payload)

\* the token returned, or None; n1, n2, n3 are its three round trips
refresh_access_token(st, refresh_token, n1, n2, n3) ==
    IF ~verify_token(st, refresh_token, "refresh", n1) THEN None
    ELSE LET payload == decode_token(st, refresh_token, n2)
         IN IF payload = None THEN None
            ELSE LET user_id == payload["user_id"]
                 IN IF user_id = "" THEN None
                    ELSE IF hasStore
                            /\ redis_get(st, RefreshKey(user_id), n3) # refresh_token
                    THEN None
                    ELSE generate_token(user_id,
                            [k \in DOMAIN payload \ ReservedClaims |-> payload[k]])

\* the remaining time rounded up to the next whole second
SecondsRoundedUp(exp, t) ==
    (exp * TicksPerSec - t + TicksPerSec - 1) \div TicksPerSec

\* int(exp - now): exp in whole seconds, now in ticks; int() truncates toward zero
RemainingSeconds(exp, t) ==
    LET diff == exp * TicksPerSec - t
    IN IF diff >= 0 THEN diff \div TicksPerSec ELSE 0 - ((0 - diff) \div TicksPerSec)

\* a revoke_token that decodes with the expiry check on
revoke_token_checking_exp(st, token, net) ==
    IF ~hasStore THEN [ret |-> FALSE, st |-> st]
    ELSE LET d == JwtDecode(token, now, TRUE)
         IN IF ~d.ok THEN [ret |-> FALSE, st |-> st]
            ELSE IF "exp" \notin DOMAIN d.payload \/ d.payload["exp"] = 0
                 THEN [ret |-> FALSE, st |-> st]
            ELSE LET ttl == RemainingSeconds(d.payload["exp"], now)
                 IN IF ttl <= 0 THEN [ret |-> TRUE, st |-> st]
                    ELSE [ret |-> TRUE,
                          st |-> redis_set(st, BlacklistKey(token), "1", ttl, net).st]

\* [ret |-> returned bool, st |-> keyspace after the call]
revoke_token(st, token, net) ==
    IF ~hasStore THEN [ret |-> FALSE, st |-> st]
    ELSE LET d == JwtDecode(token, now, FALSE)
         IN IF ~d.ok THEN [ret |-> FALSE, st |-> st]
            ELSE IF "exp" \notin DOMAIN d.payload \/ d.payload["exp"] = 0
                 THEN [ret |-> FALSE, st |-> st]
            ELSE LET ttl == RemainingSeconds(d.payload["exp"], now)
                 IN IF ttl <= 0 THEN [ret |-> TRUE, st |-> st]
                    ELSE [ret |-> TRUE,
                          st |-> redis_set(st, BlacklistKey(token), "1", ttl, net).st]

\* a revoke_user_tokens that deletes every entry of the registry
revoke_user_tokens_all(st, user_id, net) ==
    IF ~hasStore THEN [ret |-> FALSE, st |-> st]
    ELSE [ret |-> ~Raises(net),
          st  |-> IF Applied(net)
                  THEN [k \in {x \in DOMAIN st : x[1] # "refresh_token"} |-> st[k]]
                  ELSE st]

\* a revoke_user_tokens that also blacklists the user's tokens for a second
revoke_user_tokens_blacklisting(st, user_id, net) ==
    IF ~hasStore THEN [ret |-> FALSE, st |-> st]
    ELSE LET keys == {BlacklistKey(token) :
                        token \in {t \in accessTokens : t["user_id"] = user_id}}
             kept == DOMAIN st \ {RefreshKey(user_id)}
         IN [ret |-> ~Raises(net),
             st  |-> IF Applied(net)
                     THEN [k \in kept \cup keys |->
                              IF k \in kept THEN st[k] ELSE Entry("1", 1)]
                     ELSE st]

\* a revoke_user_tokens that reports success and deletes nothing
revoke_user_tokens_kept(st, user_id, net) ==
    IF ~hasStore THEN [ret |-> FALSE, st |-> st]
    ELSE [ret |-> ~Raises(net), st |-> st]

\* [ret |-> returned bool, st |-> keyspace after the call]
revoke_user_tokens(st, user_id, net) ==
    IF ~hasStore THEN [ret |-> FALSE, st |-> st]
    ELSE redis_delete(st, RefreshKey(user_id), net)

-----------------------------------------------------------------------------
(* The callers of TokenHelper: each call is one step *)

issued == accessTokens \cup refreshTokens

\* what a caller can present: a string the helper produced, or a forgery
Presentable == issued \cup {Forged}

\* outcomes of the round trips a call makes; none is made without a store
ReadNet == IF hasStore THEN {"ok", "lost_request"} ELSE {"ok"}
WriteNet == IF hasStore THEN NetOutcomes ELSE {"ok"}

Unexpired(token, t) == t < token["exp"] * TicksPerSec
StillValid(tokens, t) == {token \in tokens : Unexpired(token, t)}

CanMint(token) == token \in issued \/ Cardinality(issued) < MaxIssued

TokenInit ==
    /\ now = 0
    /\ hasStore \in BOOLEAN
    /\ store = [k \in {} |-> None]
    /\ accessTokens = {}
    /\ refreshTokens = {}
    /\ reissued = {}
    /\ superseded = {}

\* time passes; Redis drops the keys whose TTL has run out
Tick ==
    /\ now < MaxTick
    /\ now' = now + 1
    /\ store' = Purge(store, now + 1)
    /\ reissued' = StillValid(reissued, now + 1)
    /\ superseded' = StillValid(superseded, now + 1)
    /\ UNCHANGED <<hasStore, accessTokens, refreshTokens>>

\* a generate_token call that keeps the user's latest token in Redis
IssueAccessTokenCached ==
    \E user_id \in Subjects, user_data \in UserDatas :
        LET token == generate_token(user_id, user_data)
        IN /\ CanMint(token)
           /\ accessTokens' = accessTokens \cup {token}
           /\ store' = IF hasStore
                        THEN redis_set(store, RefreshKey(user_id), token,
                                       AccessLife, "ok").st
                        ELSE store
           /\ UNCHANGED <<now, hasStore, refreshTokens, reissued, superseded>>

\* a generate_token call that also registers the token in Redis
IssueAccessTokenRegistered ==
    \E user_id \in Subjects, user_data \in UserDatas :
        LET token == generate_token(user_id, user_data)
        IN /\ CanMint(token)
           /\ accessTokens' = accessTokens \cup {token}
           /\ store' = IF hasStore
                        THEN redis_set(store, <<"access_token", user_id>>, token,
                                       AccessLife, "ok").st
                        ELSE store
           /\ UNCHANGED <<now, hasStore, refreshTokens, reissued, superseded>>

IssueAccessToken ==
    \E user_id \in Subjects, user_data \in UserDatas :
        LET token == generate_token(user_id, user_data)
        IN /\ CanMint(token)
           /\ accessTokens' = accessTokens \cup {token}
           /\ UNCHANGED <<now, hasStore, store, refreshTokens, reissued, superseded>>

IssueRefreshToken ==
    \E user_id \in Subjects, net \in WriteNet :
        LET r == generate_refresh_token(store, user_id, net)
            earlier == {t \in StillValid(refreshTokens, now) : t["user_id"] = user_id}
        IN /\ CanMint(r.token)
           /\ refreshTokens' = refreshTokens \cup {r.token}
           /\ store' = r.st
           /\ reissued' = reissued \cup earlier
           /\ superseded' = IF hasStore /\ Applied(net)
                            THEN superseded \cup (earlier \ {r.token})
                            ELSE superseded
           /\ UNCHANGED <<now, hasStore, accessTokens>>

\* verify_token answers and changes nothing
Verify ==
    /\ \A token \in Presentable, token_type \in TokenTypes, net \in ReadNet :
            verify_token(store, token, token_type, net) \in BOOLEAN
    /\ UNCHANGED tokenVars

\* decode_token answers and changes nothing
Decode ==
    /\ \A token \in Presentable, net \in ReadNet :
            decode_token(store, token, net) \in issued \cup {None}
    /\ UNCHANGED tokenVars

\* the strings refresh_access_token can return in this state
RefreshResults ==
    {refresh_access_token(store, token, n[1], n[2], n[3]) :
        token \in Presentable, n \in ReadNet \X ReadNet \X ReadNet}

\* a refresh_access_token call that uses the refresh token up: the registry
\* entry of the token exchanged is deleted
RefreshConsuming ==
    \E token \in Presentable, n \in ReadNet \X ReadNet \X ReadNet :
        LET new == refresh_access_token(store, token, n[1], n[2], n[3])
        IN /\ new # None => CanMint(new)
           /\ accessTokens' = IF new = None THEN accessTokens
                              ELSE accessTokens \cup {new}
           /\ store' = IF new # None /\ hasStore
                        THEN redis_delete(store, RefreshKey(token["user_id"]), "ok").st
                        ELSE store
           /\ UNCHANGED <<now, hasStore, refreshTokens, reissued, superseded>>

Refresh ==
    \E new \in RefreshResults :
        /\ new # None => CanMint(new)
        /\ accessTokens' = IF new = None THEN accessTokens
                           ELSE accessTokens \cup {new}
        /\ UNCHANGED <<now, hasStore, store, refreshTokens, reissued, superseded>>

\* the keyspaces a revoke_token call can leave
RevokeResults ==
    {revoke_token(store, token, net).st : token \in Presentable, net \in WriteNet}

Revoke ==
    \E st \in RevokeResults :
        /\ store' = st
        /\ UNCHANGED <<now, hasStore, accessTokens, refreshTokens, reissued, superseded>>

\* the keyspaces a revoke_user_tokens call can leave
RevokeUserResults ==
    {revoke_user_tokens(store, user_id, net).st : user_id \in Subjects, net \in WriteNet}

RevokeUser ==
    \E st \in RevokeUserResults :
        /\ store' = st
        /\ UNCHANGED <<now, hasStore, accessTokens, refreshTokens, reissued, superseded>>

-----------------------------------------------------------------------------
(* generate_refresh_token as two steps.  The token is encoded from the      *)
(* clock read at entry; the registry write is a round trip that reaches     *)
(* Redis later, so the writes of two callers land in either order.          *)

\* locals of a call (user_id, token) and its history: the write reached the
\* registry (applied), and no write for the same user has reached it since (last)
IdleIssue ==
    [status |-> "idle", user_id |-> "", token |-> None,
     applied |-> FALSE, last |-> FALSE]

Writing(c) == issueCall[c].status = "writing"
Pending == {issueCall[c].token : c \in {d \in Callers : Writing(d)}}

\* the payload is built and jwt.encode has returned
IssueBegin(c) ==
    \E user_id \in Subjects :
        LET token == generate_refresh_token(store, user_id, "ok").token
        IN /\ ~Writing(c)
           /\ Cardinality(issued \cup Pending \cup {token}) <= MaxIssued
           /\ issueCall' = [issueCall EXCEPT ![c] =
                  [IdleIssue EXCEPT !.status = "writing", !.user_id = user_id,
                                    !.token = token]]
           /\ UNCHANGED <<tokenVars, lockVars>>

\* a registry write that gives way to a registered token with a later iat
IssueWriteNewest(c) ==
    \E net \in WriteNet :
        LET call == issueCall[c]
            key == RefreshKey(call.user_id)
            r == redis_set(store, key, call.token, RefreshLife, net)
            wrote == hasStore /\ Applied(net)
            newer == key \in DOMAIN store /\ store[key].val["iat"] > call.token["iat"]
        IN /\ Writing(c)
           /\ store' = IF hasStore /\ ~newer THEN r.st ELSE store
           /\ refreshTokens' = refreshTokens \cup {call.token}
           /\ issueCall' = [d \in Callers |->
                  IF d = c
                  THEN [call EXCEPT !.status = "returned", !.applied = wrote,
                                    !.last = wrote]
                  ELSE IF wrote /\ issueCall[d].user_id = call.user_id
                  THEN [issueCall[d] EXCEPT !.last = FALSE]
                  ELSE issueCall[d]]
           /\ UNCHANGED <<now, hasStore, accessTokens, reissued, superseded, lockVars>>

\* if self.redis_helper: redis_helper.set(key, token, ex=...); return token
IssueWrite(c) ==
    \E net \in WriteNet :
        LET call == issueCall[c]
            r == redis_set(store, RefreshKey(call.user_id), call.token, RefreshLife, net)
            wrote == hasStore /\ Applied(net)
        IN /\ Writing(c)
           /\ store' = IF hasStore THEN r.st ELSE store
           /\ refreshTokens' = refreshTokens \cup {call.token}
           /\ issueCall' = [d \in Callers |->
                  IF d = c
                  THEN [call EXCEPT !.status = "returned", !.applied = wrote,
                                    !.last = wrote]
                  ELSE IF wrote /\ issueCall[d].user_id = call.user_id
                  THEN [issueCall[d] EXCEPT !.last = FALSE]
                  ELSE issueCall[d]]
           /\ UNCHANGED <<now, hasStore, accessTokens, reissued, superseded, lockVars>>

IssueNext ==
    \/ Tick /\ UNCHANGED <<lockVars, issueVars>>
    \/ \E c \in Callers : IssueBegin(c)
    \/ \E c \in Callers : IssueWrite(c)
    \/ Revoke /\ UNCHANGED <<lockVars, issueVars>>

-----------------------------------------------------------------------------
(* RedisHelper's distributed lock.  acquire_lock is a loop of round trips   *)
(* with sleeps between them, so a call takes several steps and the calls of *)
(* two callers interleave; release_lock is one EVAL, which Redis runs as a  *)
(* single command.                                                          *)

LockName == "X"
LockKey(lock_name) == <<"lock", lock_name>>

(* arguments callers pass to acquire_lock: timeout in seconds, retry_delay  *)
(* in ticks                                                                 *)
Timeouts == {1, 2}
RetryTimes == {0, 1, 2}
RetryDelays == {1}

NoId == 0
\* locals of a call (id, timeout, retry_times, retry_delay, the passes i of the
\* loop made so far, the end of the current sleep), its result ret, and its
\* history: redis-py raised; the call raced (it overlapped a call of the other
\* caller with the same arguments, retry_times * retry_delay shorter than
\* timeout, and the key was absent when each began);
\* the record this call wrote has since been deleted or has expired (gone)
IdleCall ==
    [status |-> "idle", id |-> NoId, timeout |-> 0, retry_times |-> 0,
     retry_delay |-> 0, i |-> 0, wake |-> 0, ret |-> NoId,
     raised |-> FALSE, free |-> FALSE, raced |-> FALSE, gone |-> FALSE]

\* SET with EX but without NX
SetEx(st, key, value, ex) ==
    [st |-> Put(st, key, Entry(value, ex)), reply |-> TRUE]

\* redis_client.set(key, value, nx=True, ex=ex) on the server
SetNxEx(st, key, value, ex) ==
    IF key \in DOMAIN st
    THEN [st |-> st, reply |-> FALSE]
    ELSE [st |-> Put(st, key, Entry(value, ex)), reply |-> TRUE]

\* a pass that stores the identifier for one second whatever timeout says
acquire_attempt_one_second(st, lock_name, identifier, timeout, net) ==
    LET r == SetNxEx(st, LockKey(lock_name), identifier, 1)
    IN [st     |-> IF Applied(net) THEN r.st ELSE st,
        got    |-> ~Raises(net) /\ r.reply,
        raised |-> Raises(net)]

\* one pass of acquire_lock's loop body up to the sleep:
\* [st |-> keyspace after, got |-> SET answered OK, raised |-> redis-py raised]
acquire_attempt(st, lock_name, identifier, timeout, net) ==
    LET r == SetNxEx(st, LockKey(lock_name), identifier, timeout)
    IN [st     |-> IF Applied(net) THEN r.st ELSE st,
        got    |-> ~Raises(net) /\ r.reply,
        raised |-> Raises(net)]

\* a script that deletes the key without comparing
DelScript(st, key, identifier) ==
    IF key \in DOMAIN st
    THEN [st |-> Drop(st, key), reply |-> 1]
    ELSE [st |-> st, reply |-> 0]

\* a script that compares and answers but does not delete
CompareScript(st, key, identifier) ==
    IF key \in DOMAIN st /\ st[key].val = identifier
    THEN [st |-> st, reply |-> 1]
    ELSE [st |-> st, reply |-> 0]

\* the Lua script of release_lock on the server
ReleaseScript(st, key, identifier) ==
    IF key \in DOMAIN st /\ st[key].val = identifier
    THEN [st |-> Drop(st, key), reply |-> 1]
    ELSE [st |-> st, reply |-> 0]

\* a release_lock that reports True whenever the script was answered
release_lock_answered(st, lock_name, identifier, net) ==
    LET r == ReleaseScript(st, LockKey(lock_name), identifier)
    IN [st  |-> IF Applied(net) THEN r.st ELSE st,
        ret |-> ~Raises(net)]

\* [ret |-> returned bool, st |-> keyspace after the call]
release_lock(st, lock_name, identifier, net) ==
    LET r == ReleaseScript(st, LockKey(lock_name), identifier)
    IN [st  |-> IF Applied(net) THEN r.st ELSE st,
        ret |-> IF Raises(net) THEN FALSE ELSE r.reply # 0]

InFlight(c) == lockCall[c].status \in {"trying", "sleeping"}
Returned(c) == lockCall[c].status = "returned"
Other(c) == CHOOSE d \in Callers : d # c

\* the history of the calls once the keyspace is st: a call whose record is no
\* longer there has lost it
Held(st, identifier) ==
    LockKey(LockName) \in DOMAIN st /\ st[LockKey(LockName)].val = identifier
Forget(st) ==
    [c \in Callers |->
        IF lockCall[c].ret # NoId /\ ~Held(st, lockCall[c].ret)
        THEN [lockCall[c] EXCEPT !.gone = TRUE] ELSE lockCall[c]]

\* acquire_lock returns ret to its caller
Return(call, ret) ==
    [call EXCEPT !.status = "returned", !.ret = ret,
                 !.timeout = 0, !.retry_delay = 0, !.wake = 0, !.free = FALSE]

\* acquire_lock is entered: the identifier is drawn, the loop is about to begin
AcquireLock(c) ==
    \E timeout \in Timeouts, retry_times \in RetryTimes, retry_delay \in RetryDelays :
        LET free == LockKey(LockName) \notin DOMAIN store
            peer == lockCall[Other(c)]
            races == /\ retry_times * retry_delay < timeout * TicksPerSec
                     /\ free
                     /\ InFlight(Other(c)) /\ peer.free
                     /\ peer.timeout = timeout
                     /\ peer.retry_times = retry_times
                     /\ peer.retry_delay = retry_delay
            call == [IdleCall EXCEPT !.status = "trying", !.id = nextId,
                        !.timeout = timeout, !.retry_times = retry_times,
                        !.retry_delay = retry_delay,
                        !.free = free, !.raced = races]
        IN /\ ~InFlight(c)
           /\ nextId <= MaxIds
           /\ nextId' = nextId + 1
           /\ lockCall' = [lockCall EXCEPT
                             ![c] = call,
                             ![Other(c)] = IF races THEN [peer EXCEPT !.raced = TRUE]
                                           ELSE peer]
           /\ UNCHANGED <<tokenVars, issueVars>>

\* for _ in range(retry_times): the loop is exhausted and None is returned, or
\* SET NX EX is sent: return the identifier, or sleep, or return None on an
\* exception
AcquireAttempt(c) ==
    \E net \in NetOutcomes :
        LET call == lockCall[c]
            r == acquire_attempt(store, LockName, call.id, call.timeout, net)
        IN /\ call.status = "trying"
           /\ IF call.i >= call.retry_times
              THEN /\ net = "ok"
                   /\ store' = store
                   /\ lockCall' = [lockCall EXCEPT ![c] = Return(call, NoId)]
              ELSE /\ store' = r.st
                   /\ lockCall' = [lockCall EXCEPT ![c] =
                        IF r.raised THEN Return([call EXCEPT !.raised = TRUE], NoId)
                        ELSE IF r.got THEN Return(call, call.id)
                        ELSE [call EXCEPT !.status = "sleeping",
                                          !.wake = now + call.retry_delay]]
           /\ UNCHANGED <<nextId, now, hasStore, accessTokens, refreshTokens,
                          reissued, superseded, issueVars>>

\* a sleep after which the same pass of the loop is made again
AcquireWakeUncounted(c) ==
    LET call == lockCall[c]
    IN /\ call.status = "sleeping"
       /\ now >= call.wake
       /\ lockCall' = [lockCall EXCEPT ![c] =
                         [call EXCEPT !.status = "trying", !.wake = 0]]
       /\ UNCHANGED <<nextId, tokenVars, issueVars>>

\* time.sleep(retry_delay) is over: the next pass of the loop
AcquireWake(c) ==
    LET call == lockCall[c]
    IN /\ call.status = "sleeping"
       /\ now >= call.wake
       /\ lockCall' = [lockCall EXCEPT ![c] =
                         [call EXCEPT !.status = "trying", !.i = call.i + 1, !.wake = 0]]
       /\ UNCHANGED <<nextId, tokenVars, issueVars>>

\* the identifiers a caller can pass to release_lock: any uuid drawn so far,
\* and one that never was
Identifiers == 1 .. nextId

\* the keyspaces a release_lock call can leave
ReleaseResults ==
    {release_lock(store, LockName, identifier, net).st :
        identifier \in Identifiers, net \in NetOutcomes}

ReleaseLock ==
    \E st \in ReleaseResults :
        /\ \E c \in Callers : ~InFlight(c)
        /\ store' = st
        /\ lockCall' = Forget(st)
        /\ UNCHANGED <<nextId, now, hasStore, accessTokens, refreshTokens,
                       reissued, superseded, issueVars>>

\* a clock that advances while Redis expires nothing
LockTickKeeping ==
    /\ now < MaxTick
    /\ now' = now + 1
    /\ UNCHANGED <<store, lockCall, hasStore, accessTokens, refreshTokens, reissued,
                   superseded, nextId, issueVars>>

LockTick ==
    /\ now < MaxTick
    /\ now' = now + 1
    /\ store' = Purge(store, now + 1)
    /\ lockCall' = Forget(Purge(store, now + 1))
    /\ UNCHANGED <<hasStore, accessTokens, refreshTokens, reissued, superseded, nextId, issueVars>>

LockInit ==
    /\ now = 0
    /\ hasStore = TRUE
    /\ store = [k \in {} |-> None]
    /\ accessTokens = {}
    /\ refreshTokens = {}
    /\ reissued = {}
    /\ superseded = {}
    /\ lockCall = [c \in Callers |-> IdleCall]
    /\ nextId = 1
    /\ issueCall = [c \in Callers |-> IdleIssue]

LockNext ==
    \/ LockTick
    \/ \E c \in Callers : AcquireLock(c)
    \/ \E c \in Callers : AcquireAttempt(c)
    \/ \E c \in Callers : AcquireWake(c)
    \/ ReleaseLock

-----------------------------------------------------------------------------
(* The specifications: the callers of TokenHelper, and the callers of the  *)
(* lock                                                                    *)

vars == <<tokenVars, lockVars, issueVars>>

Init ==
    /\ TokenInit
    /\ lockCall = [c \in Callers |-> IdleCall]
    /\ nextId = 1
    /\ issueCall = [c \in Callers |-> IdleIssue]

Next ==
    \/ Tick /\ UNCHANGED <<lockVars, issueVars>>
    \/ IssueAccessToken /\ UNCHANGED <<lockVars, issueVars>>
    \/ IssueRefreshToken /\ UNCHANGED <<lockVars, issueVars>>
    \/ Verify /\ UNCHANGED <<lockVars, issueVars>>
    \/ Decode /\ UNCHANGED <<lockVars, issueVars>>
    \/ Refresh /\ UNCHANGED <<lockVars, issueVars>>
    \/ Revoke /\ UNCHANGED <<lockVars, issueVars>>
    \/ RevokeUser /\ UNCHANGED <<lockVars, issueVars>>

Spec == Init /\ [][Next]_vars

LockSpec == LockInit /\ [][LockNext]_vars

\* generate_refresh_token calls of two callers, interleaved at the round trip
IssueSpec == Init /\ [][IssueNext]_vars


\* the process that runs acquire_lock is scheduled and its sleep ends when the
\* clock has reached its end; the clock runs up to MaxTick
LockFairSpec ==
    /\ LockSpec
    /\ WF_vars(LockTick)
    /\ \A c \in Callers : WF_vars(AcquireAttempt(c)) /\ WF_vars(AcquireWake(c))

-----------------------------------------------------------------------------
(* Properties of TokenHelper *)

ReadNet3 == ReadNet \X ReadNet \X ReadNet

\* refresh_access_token returns a token for some outcome of its round trips
Refreshable(st, token) ==
    \E n \in ReadNet3 : refresh_access_token(st, token, n[1], n[2], n[3]) # None

\* some call takes the token: verify_token for a type, decode_token or
\* refresh_access_token
Accepted(token) ==
    \/ \E token_type \in TokenTypes, net \in ReadNet :
            verify_token(store, token, token_type, net)
    \/ \E net \in ReadNet : decode_token(store, token, net) # None
    \/ Refreshable(store, token)

Registered(token) ==
    /\ RefreshKey(token["user_id"]) \in DOMAIN store
    /\ store[RefreshKey(token["user_id"])].val = token

\* C1: with every round trip to Redis answered, once revoke_token has returned
\* True for a token that has not expired, verify_token returns False for it,
\* whatever the expected type.
C1_RevokedIsRejected ==
    \A token \in issued, token_type \in TokenTypes :
        LET r == revoke_token(store, token, "ok")
        IN (r.ret /\ Unexpired(token, now))
              => ~verify_token(r.st, token, token_type, "ok")

\* C2: with a store configured, the only string refresh_access_token exchanges
\* for an access token is the one held under the user's refresh_token key, so
\* there is at most one per user.
C2_OnlyRegisteredRefreshes ==
    hasStore => \A token \in Presentable : Refreshable(store, token) => Registered(token)

C2_Witness ==
    /\ hasStore
    /\ \E t1 \in refreshTokens, t2 \in refreshTokens :
          /\ t1 # t2
          /\ t1["user_id"] = t2["user_id"]
          /\ verify_token(store, t1, "refresh", "ok")
          /\ verify_token(store, t2, "refresh", "ok")
          /\ ~Refreshable(store, t1)
          /\ Refreshable(store, t2)

\* C3 as stated: a refresh token that was followed by another
\* generate_refresh_token call for the same user is no longer exchanged.
C3_ReissueInvalidatesFirst ==
    \A token \in reissued : ~Refreshable(store, token)

\* C3 as amended: with a store configured, a refresh token whose Redis entry a
\* later generate_refresh_token call for the same user replaced by a different
\* string is no longer exchanged, although it still verifies.
C3_SupersededIsNotRefreshed ==
    hasStore => \A token \in superseded : ~Refreshable(store, token)

C3_Witness ==
    /\ hasStore
    /\ \E token \in superseded :
          /\ verify_token(store, token, "refresh", "ok")
          /\ ~Refreshable(store, token)
          /\ \E other \in refreshTokens : other # token /\ Refreshable(store, other)

\* C7: no token generate_token returned verifies as a refresh token, and no
\* token generate_refresh_token returned verifies as an access token.
C7_TypesAreSeparated ==
    /\ \A token \in accessTokens, net \in ReadNet :
          ~verify_token(store, token, "refresh", net)
    /\ \A token \in refreshTokens, net \in ReadNet :
          ~verify_token(store, token, "access", net)

\* C8: in every state at or after a token's exp (the clock only advances, so
\* in every state that follows its first rejection as expired) no call takes
\* the token: verify_token returns False for both types, decode_token and
\* refresh_access_token return None, whatever Redis answers.
C8_ExpiredIsRejected ==
    \A token \in issued : ~Unexpired(token, now) => ~Accepted(token)

C8_Witness ==
    \E token \in refreshTokens :
        /\ ~Unexpired(token, now)
        /\ hasStore
        /\ Registered(token)
        /\ ~is_token_blacklisted(store, token, "ok")
        /\ ~Accepted(token)

\* C9: only revoke_token of a token creates its blacklist key, and once
\* verify_token has found a token blacklisted no step leads to a state where
\* verify_token returns True for it (every round trip answered).
C9_BlacklistIsOneWay ==
    [][\A token \in Presentable :
          /\ (BlacklistKey(token) \notin DOMAIN store /\ BlacklistKey(token) \in DOMAIN store')
                => \E net \in WriteNet : store' = revoke_token(store, token, net).st
          /\ is_token_blacklisted(store, token, "ok")
                => \A token_type \in TokenTypes :
                       ~verify_token(store, token, token_type, "ok")']_vars

\* C10: when the blacklist lookup does not reach Redis, verify_token returns
\* False and decode_token returns None.
C10_OutageRejects ==
    hasStore =>
        \A token \in Presentable :
            /\ \A token_type \in TokenTypes :
                  ~verify_token(store, token, token_type, "lost_request")
            /\ decode_token(store, token, "lost_request") = None

\* the keyspace and the refresh token after generate_refresh_token for a user
\* without an id, answered by Redis
Anonymous == generate_refresh_token(store, "", "ok")

\* the refresh tokens a caller can present, one without a user id among them
Refreshers == [st : {store}, token : Presentable] \cup {Anonymous}

RegisteredIn(st, token) ==
    /\ RefreshKey(token["user_id"]) \in DOMAIN st
    /\ st[RefreshKey(token["user_id"])].val = token

\* what the claim requires of a refresh_access_token call that returns a token
RefreshRequires(st, token, n) ==
    /\ verify_token(st, token, "refresh", n[1])
    /\ token["user_id"] # ""
    /\ n[3] = "ok"
    /\ RegisteredIn(st, token)

\* C11 as stated: refresh_access_token returns a token only if verify_token
\* was True for type refresh, the payload carries a user_id, and the registry
\* entry of that user was read and equals the token presented.
C11_RefreshNeedsRegistry ==
    \A r \in Refreshers, n \in ReadNet3 :
        refresh_access_token(r.st, r.token, n[1], n[2], n[3]) # None
            => RefreshRequires(r.st, r.token, n)

\* C11 as amended: the same with a store configured; without one,
\* refresh_access_token returns a token only if verify_token was True for type
\* refresh and the payload carries a user_id.
C11_RefreshNeedsRegistryOfStore ==
    \A r \in Refreshers, n \in ReadNet3 :
        refresh_access_token(r.st, r.token, n[1], n[2], n[3]) # None
            => IF hasStore THEN RefreshRequires(r.st, r.token, n)
               ELSE /\ verify_token(r.st, r.token, "refresh", n[1])
                    /\ r.token["user_id"] # ""

\* a registered token is exchanged when the registry is read and is not when
\* the read fails; a token without user id, registered and verifying, is not
C11_Witness ==
    /\ hasStore
    /\ \E token \in refreshTokens :
          /\ refresh_access_token(store, token, "ok", "ok", "ok") # None
          /\ refresh_access_token(store, token, "ok", "ok", "lost_request") = None
    /\ RegisteredIn(Anonymous.st, Anonymous.token)
    /\ verify_token(Anonymous.st, Anonymous.token, "refresh", "ok")
    /\ refresh_access_token(Anonymous.st, Anonymous.token, "ok", "ok", "ok") = None

\* C12: with a store that answers, refresh_access_token called on the token
\* generate_refresh_token has just returned for a user gives a token that
\* decodes to that user_id and to type access.
C12_FreshRefreshTokenRefreshes ==
    \A user_id \in Subjects :
        LET r == generate_refresh_token(store, user_id, "ok")
            new == refresh_access_token(r.st, r.token, "ok", "ok", "ok")
        IN /\ new # None
           /\ JwtDecode(new, now, TRUE).ok
           /\ JwtDecode(new, now, TRUE).payload["user_id"] = user_id
           /\ JwtDecode(new, now, TRUE).payload["type"] = "access"

C14_ReservedClaimsWin ==
    \A user_id \in Subjects, user_data \in UserDatas :
        LET token == generate_token(user_id, user_data)
        IN /\ token["user_id"] = user_id
           /\ token["type"] = "access"
           /\ token["iat"] = Timegm(now)
           /\ token["exp"] = Timegm(now) + AccessLife

BlacklistKeys(st) == {key \in DOMAIN st : key[1] = "token_blacklist"}

\* the ticks a token has left at time t (negative once it has expired)
Remaining(token, t) == token["exp"] * TicksPerSec - t

\* C15: a blacklist entry revoke_token writes has a positive TTL that does not
\* exceed the time the token has left, so no entry outlives its token; and
\* revoke_token of a token that has no time left returns True and writes
\* nothing.
C15_BlacklistTtlBounded ==
    /\ \A key \in BlacklistKeys(store) :
          ~store[key].persist /\ now < store[key].expireAt
             /\ store[key].expireAt <= key[2]["exp"] * TicksPerSec
    /\ \A token \in issued, net \in WriteNet :
          LET r == revoke_token(store, token, net)
              key == BlacklistKey(token)
          IN /\ (key \in DOMAIN r.st /\ (key \notin DOMAIN store \/ r.st[key] # store[key]))
                   => /\ ~r.st[key].persist
                      /\ r.st[key].expireAt - now > 0
                      /\ r.st[key].expireAt - now <= Remaining(token, now)
             /\ (hasStore /\ Remaining(token, now) <= 0) => (r.ret /\ r.st = store)

\* an entry was written with less than the token's remaining time, and an
\* expired token is revoked without a write
C15_Witness ==
    /\ hasStore
    /\ \E key \in BlacklistKeys(store) :
          store[key].expireAt < key[2]["exp"] * TicksPerSec
    /\ \E token \in issued :
          /\ Remaining(token, now) <= 0
          /\ revoke_token(store, token, "ok") = [ret |-> TRUE, st |-> store]

\* C16: revoke_token returns False and leaves the keyspace alone when no store
\* is configured, when the signature is wrong and when the claims hold no exp;
\* with a store it decodes an expired token of the helper and returns True.
C16_RevokeRefusals ==
    \A token \in Presentable \cup {NoExpiry}, net \in WriteNet :
        LET r == revoke_token(store, token, net)
        IN /\ (~hasStore \/ token \in {Forged, NoExpiry}) => (~r.ret /\ r.st = store)
           /\ (hasStore /\ token \in issued /\ ~Unexpired(token, now)) => r.ret

\* with a store that holds keys, an expired token is revoked with True while
\* the forged string and the one without exp are refused
C16_Witness ==
    /\ hasStore
    /\ DOMAIN store # {}
    /\ \E token \in issued :
          ~Unexpired(token, now) /\ revoke_token(store, token, "ok").ret
    /\ ~revoke_token(store, Forged, "ok").ret
    /\ ~revoke_token(store, NoExpiry, "ok").ret

\* C17: when the blacklist write of revoke_token does not reach Redis the call
\* returns False, so True for an unexpired token means that the entry is there.
C17_FailedWriteIsFalse ==
    \A token \in issued :
        /\ (hasStore /\ RemainingSeconds(token["exp"], now) > 0)
              => ~revoke_token(store, token, "lost_request").ret
        /\ \A net \in WriteNet :
              LET r == revoke_token(store, token, net)
              IN (r.ret /\ RemainingSeconds(token["exp"], now) > 0)
                    => BlacklistKey(token) \in DOMAIN r.st

TokensOf(user_id) == {token \in refreshTokens : token["user_id"] = user_id}

\* revoke_user_tokens in this state: True means the entry of the user is gone
\* and none of the user's refresh tokens is exchanged; without a store and when
\* the DEL does not reach Redis the result is False
RevokeUserClears ==
    \A user_id \in Subjects, net \in WriteNet :
        LET r == revoke_user_tokens(store, user_id, net)
        IN /\ r.ret => /\ hasStore
                        /\ RefreshKey(user_id) \notin DOMAIN r.st
                        /\ \A token \in TokensOf(user_id) : ~Refreshable(r.st, token)
           /\ (~hasStore \/ net = "lost_request") => ~r.ret

\* with a store, a user without registry entry has no refresh token exchanged
NoEntryNoRefresh ==
    \A user_id \in Subjects :
        (hasStore /\ RefreshKey(user_id) \notin DOMAIN store)
            => \A token \in TokensOf(user_id) : ~Refreshable(store, token)

\* a step that creates the registry entry of a user is a generate_refresh_token
\* call for that user
OnlyIssueRegisters ==
    \A user_id \in Subjects :
        (RefreshKey(user_id) \notin DOMAIN store /\ RefreshKey(user_id) \in DOMAIN store')
            => \E net \in WriteNet :
                  LET r == generate_refresh_token(store, user_id, net)
                  IN store' = r.st /\ refreshTokens' = refreshTokens \cup {r.token}

\* C18: revoke_user_tokens returning True has deleted the user's registry
\* entry; from then on refresh_access_token returns None for each of the user's
\* refresh tokens until a generate_refresh_token call for that user; it returns
\* False without a store and when the delete fails.
C18_RevokeUserStopsRefresh ==
    /\ [](RevokeUserClears /\ NoEntryNoRefresh)
    /\ [][OnlyIssueRegisters]_vars

\* a refresh token that is exchanged, and is not after revoke_user_tokens for
\* its user returned True, although it still verifies
C18_Witness ==
    \E token \in refreshTokens :
        LET r == revoke_user_tokens(store, token["user_id"], "ok")
        IN /\ Refreshable(store, token)
           /\ r.ret
           /\ ~Refreshable(r.st, token)
           /\ verify_token(r.st, token, "refresh", "ok")

\* revoke_user_tokens in this state leaves every key but the user's registry
\* entry as it is, and with it the answer of verify_token for every token
RevokeUserFrame ==
    \A user_id \in Subjects, net \in WriteNet :
        LET r == revoke_user_tokens(store, user_id, net)
        IN /\ DOMAIN store \ {RefreshKey(user_id)} \subseteq DOMAIN r.st
           /\ DOMAIN r.st \subseteq DOMAIN store
           /\ \A key \in DOMAIN r.st : r.st[key] = store[key]
           /\ \A token \in Presentable, token_type \in TokenTypes, n \in ReadNet :
                 verify_token(r.st, token, token_type, n)
                    = verify_token(store, token, token_type, n)

\* a token of the helper that has not expired and has no blacklist entry
\* verifies for the type in its claims
UnrevokedVerifies ==
    \A token \in issued, n \in ReadNet :
        (Unexpired(token, now) /\ BlacklistKey(token) \notin DOMAIN store)
            => verify_token(store, token, token["type"], n)

\* a step that creates the blacklist entry of a token is a revoke_token call
\* for that token
OnlyRevokeBlacklists ==
    \A token \in Presentable :
        (BlacklistKey(token) \notin DOMAIN store /\ BlacklistKey(token) \in DOMAIN store')
            => \E net \in WriteNet : store' = revoke_token(store, token, net).st

\* C19: revoke_user_tokens writes no blacklist entry and changes the answer of
\* verify_token for no token; a token that verified before the call keeps
\* verifying until it expires or revoke_token blacklists it.
C19_RevokeUserSparesAccessTokens ==
    /\ [](RevokeUserFrame /\ UnrevokedVerifies)
    /\ [][OnlyRevokeBlacklists]_vars

\* revoke_user_tokens deletes the registry entry of a user whose access token
\* verifies before and after
C19_Witness ==
    \E token \in accessTokens :
        LET r == revoke_user_tokens(store, token["user_id"], "ok")
        IN /\ RefreshKey(token["user_id"]) \in DOMAIN store
           /\ verify_token(store, token, "access", "ok")
           /\ r.ret
           /\ RefreshKey(token["user_id"]) \notin DOMAIN r.st
           /\ verify_token(r.st, token, "access", "ok")

\* the token generate_token mints at time t, written out from its arguments
Minted(user_id, user_data, t) ==
    JwtEncode(Update([user_id |-> user_id,
                      exp |-> t + AccessLife * TicksPerSec,
                      iat |-> t,
                      type |-> "access"], user_data))

\* C20: a step that mints an access token leaves the keyspace as it is, and
\* the token is the one its arguments and the clock determine, with or without
\* a store and whatever the store holds.
C20_AccessTokensAreStateless ==
    [][\A token \in accessTokens' \ accessTokens :
          /\ store' = store
          /\ \E user_id \in Subjects, user_data \in UserDatas :
                /\ token = Minted(user_id, user_data, now)
                /\ token = generate_token(user_id, user_data)]_vars

\* an access token was minted for a user while the store held that user's
\* refresh token, and the store holds nothing about the access token
C20_Witness ==
    /\ hasStore
    /\ \E token \in accessTokens :
          /\ token["type"] = "access"
          /\ token["iat"] > 0
          /\ RefreshKey(token["user_id"]) \in DOMAIN store
          /\ store[RefreshKey(token["user_id"])].val["iat"] < token["iat"]
          /\ BlacklistKey(token) \notin DOMAIN store
          /\ \A user_id \in Subjects :
                RefreshKey(user_id) \in DOMAIN store
                    => store[RefreshKey(user_id)].val # token

\* why a call rejects a token: the signature, the expiry, the blacklist
Rejected(token) ==
    \/ token = Forged
    \/ "exp" \in DOMAIN token /\ ~Unexpired(token, now)
    \/ hasStore /\ BlacklistKey(token) \in DOMAIN store

\* C21: every call answers with a value of its return type for every token,
\* type and outcome of its round trips, and every cause of rejection gives the
\* one value False (verify_token) or None (decode_token,
\* refresh_access_token), so the causes cannot be told apart.
C21_RejectionsCollapse ==
    \A token \in Presentable \cup {NoExpiry} :
        /\ \A token_type \in TokenTypes, net \in ReadNet :
              /\ verify_token(store, token, token_type, net) \in BOOLEAN
              /\ (token["type"] # token_type \/ (Rejected(token) /\ net = "ok"))
                    => verify_token(store, token, token_type, net) = FALSE
        /\ (Rejected(token) /\ token["type"] = "refresh")
              => /\ decode_token(store, token, "ok") = None
                 /\ refresh_access_token(store, token, "ok", "ok", "ok") = None
        /\ (Rejected(token) /\ token["type"] = "access")
              => decode_token(store, token, "ok") = None
        /\ \A n \in ReadNet3 :
              (token["type"] # "refresh" \/ (hasStore /\ ~Registered(token))
                    \/ (hasStore /\ n[3] # "ok"))
                 => refresh_access_token(store, token, n[1], n[2], n[3]) = None
        /\ \A net \in WriteNet : revoke_token(store, token, net).ret \in BOOLEAN
        /\ \A user_id \in Subjects, net \in WriteNet :
              revoke_user_tokens(store, user_id, net).ret \in BOOLEAN

\* an expired token and a blacklisted token that has not expired are both
\* answered None, as the forged string is
C21_Witness ==
    /\ hasStore
    /\ \E t1 \in issued, t2 \in issued :
          /\ ~Unexpired(t1, now)
          /\ Unexpired(t2, now) /\ BlacklistKey(t2) \in DOMAIN store
          /\ decode_token(store, t1, "ok") = decode_token(store, t2, "ok")
          /\ decode_token(store, t1, "ok") = decode_token(store, Forged, "ok")
          /\ ~verify_token(store, t1, t1["type"], "ok")
          /\ ~verify_token(store, t2, t2["type"], "ok")

RegistryKeys(st) == {key \in DOMAIN st : key[1] = "refresh_token"}

\* C22 as stated: no key and no value of the keyspace holds the string of an
\* access token.
C22_NoAccessTokenInStore ==
    /\ \A key \in BlacklistKeys(store) : key[2] \notin accessTokens
    /\ \A key \in RegistryKeys(store) : store[key].val \notin accessTokens

\* C22 as amended: no value of the keyspace holds the string of an access
\* token, and the only keys that hold one are the blacklist keys of revoked
\* tokens: the keyspace consists of registry entries, each a user's refresh
\* token, and of blacklist entries with the value "1".
C22_AccessTokensOnlyInBlacklistKeys ==
    /\ DOMAIN store = BlacklistKeys(store) \cup RegistryKeys(store)
    /\ \A key \in RegistryKeys(store) :
          /\ key[2] \in Subjects
          /\ store[key].val \in refreshTokens
          /\ store[key].val \notin accessTokens
    /\ \A key \in BlacklistKeys(store) :
          /\ key[2] \in issued
          /\ store[key].val = "1"

\* the keyspace holds a user's refresh token and the blacklist entry of an
\* access token
C22_Witness ==
    /\ RegistryKeys(store) # {}
    /\ \E token \in accessTokens : BlacklistKey(token) \in DOMAIN store

\* the two calls have returned, were for one user, and both writes reached the
\* registry, the one of caller c last
BothIssued(c) ==
    /\ hasStore
    /\ issueCall[c].status = "returned" /\ issueCall[Other(c)].status = "returned"
    /\ issueCall[c].user_id = issueCall[Other(c)].user_id
    /\ issueCall[c].applied /\ issueCall[Other(c)].applied
    /\ issueCall[c].last

\* the registry entry, while it lasts, holds the token of the last writer, and
\* that token, unexpired and not blacklisted, is exchanged
LastWriterRegistered(c) ==
    LET call == issueCall[c]
        key == RefreshKey(call.user_id)
    IN /\ key \in DOMAIN store => store[key].val = call.token
       /\ Unexpired(call.token, now) /\ BlacklistKey(call.token) \notin DOMAIN store
            => refresh_access_token(store, call.token, "ok", "ok", "ok") # None

OtherRefused(c) ==
    \A n \in ReadNet3 :
        refresh_access_token(store, issueCall[Other(c)].token, n[1], n[2], n[3]) = None

\* C26 as stated: after two concurrent issueRefreshToken calls for one subject
\* the registry holds the token of the last writer, that token is exchanged by
\* refresh, and refresh of the other call's token returns none
C26_LastWriterWins ==
    \A c \in Callers : BothIssued(c) => LastWriterRegistered(c) /\ OtherRefused(c)

\* C26: after two concurrent issueRefreshToken calls for one subject whose
\* registry writes both reached the store, the registry entry holds the token
\* of the call whose write landed last, refresh of that token succeeds while it
\* is unexpired and not blacklisted, and refresh of the other call's token
\* returns none if the two calls returned different strings
C26_LastWriterWinsDistinct ==
    \A c \in Callers :
        BothIssued(c) =>
            /\ LastWriterRegistered(c)
            /\ issueCall[Other(c)].token # issueCall[c].token => OtherRefused(c)

\* the later write carries the older token (it was encoded a second earlier),
\* that token is exchanged and the token of the other call is refused
C26_Witness ==
    \E c \in Callers :
        /\ BothIssued(c)
        /\ issueCall[c].token["iat"] < issueCall[Other(c)].token["iat"]
        /\ Unexpired(issueCall[Other(c)].token, now)
        /\ refresh_access_token(store, issueCall[c].token, "ok", "ok", "ok") # None
        /\ OtherRefused(c)

C28_DecodeFollowsVerify ==
    \A token \in Presentable \cup {NoExpiry}, net \in ReadNet :
        LET decodes == decode_token(store, token, net) # None
            passes == /\ ~(hasStore /\ is_token_blacklisted(store, token, net))
                      /\ JwtDecode(token, now, TRUE).ok
        IN /\ decodes <=> passes
           /\ decodes <=> verify_token(store, token, token["type"], net)
           /\ decodes => decode_token(store, token, net) = token
           /\ net = "ok" =>
                (decodes <=> /\ ~(hasStore /\ BlacklistKey(token) \in DOMAIN store)
                             /\ JwtDecode(token, now, TRUE).ok)

\* one unexpired token is blacklisted and is refused by both, another is
\* accepted by both
C28_Witness ==
    /\ \E token \in issued :
          /\ BlacklistKey(token) \in DOMAIN store
          /\ JwtDecode(token, now, TRUE).ok
          /\ decode_token(store, token, "ok") = None
          /\ ~verify_token(store, token, token["type"], "ok")
    /\ \E token \in issued :
          /\ decode_token(store, token, "ok") = token
          /\ verify_token(store, token, token["type"], "ok")

\* C29: with a store that answers, the token generate_token returns (for
\* user_data without reserved names) passes verify_token as access, and the
\* token generate_refresh_token returns passes it as refresh, in the state the
\* call leaves, whatever was issued and revoked before.
C29_FreshTokenVerifies ==
    hasStore =>
        /\ \A user_id \in Subjects, user_data \in UserDatas :
              DOMAIN user_data \cap ReservedClaims = {} =>
                verify_token(store, generate_token(user_id, user_data), "access", "ok")
        /\ \A user_id \in Subjects :
              LET r == generate_refresh_token(store, user_id, "ok")
              IN verify_token(r.st, r.token, "refresh", "ok")

\* refresh_access_token returns a token for this one when Redis answers
Exchanged(token) ==
    refresh_access_token(store, token, "ok", "ok", "ok") # None

\* a call of verify_token, decode_token or refresh_access_token leaves every
\* key of Redis as it was, and a refresh token that could be exchanged before
\* the call can be exchanged after it
ReadsKeepStore ==
    (Verify \/ Decode \/ Refresh) =>
        /\ store' = store
        /\ \A token \in refreshTokens : Exchanged(token) => Exchanged(token)'

\* a refresh token stops being exchangeable only by expiring, by losing its
\* registry entry to another string, to revoke_user_tokens or to the TTL, or by
\* being blacklisted
ExchangeEnds ==
    \A token \in refreshTokens :
        (Exchanged(token) /\ ~Exchanged(token)') =>
            \/ ~Unexpired(token, now')
            \/ ~Registered(token)'
            \/ BlacklistKey(token) \in DOMAIN store'

\* C30: verify_token, decode_token and refresh_access_token never write to
\* Redis: each leaves the registry and the blacklist unchanged, so a refresh
\* does not use the refresh token up, and a registered refresh token is
\* exchanged again and again until it expires, is superseded or is revoked.
C30_ReadsDoNotWrite ==
    [][ReadsKeepStore /\ ExchangeEnds]_vars

\* a registered refresh token has been exchanged for the access token of this
\* second and is exchanged again
C30_Witness ==
    \E token \in refreshTokens :
        /\ hasStore /\ Registered(token)
        /\ Exchanged(token)
        /\ refresh_access_token(store, token, "ok", "ok", "ok") \in accessTokens

\* the keyspace without the refresh registry
Unregistered(st) == [k \in DOMAIN st \ RegistryKeys(st) |-> st[k]]

\* C31: verify_token for type refresh does not read the registry: its answer
\* is the one it gives with the registry emptied, so a refresh token that is
\* no longer the registered string (another was written over it, or
\* revoke_user_tokens deleted the entry) is verified and decoded until it
\* expires or is blacklisted, while refresh_access_token returns None for it.
C31_VerifyIgnoresRegistry ==
    \A token \in refreshTokens, net \in ReadNet :
        /\ verify_token(store, token, "refresh", net)
              = verify_token(Unregistered(store), token, "refresh", net)
        /\ (Unexpired(token, now) /\ BlacklistKey(token) \notin DOMAIN store) =>
              /\ verify_token(store, token, "refresh", net)
              /\ decode_token(store, token, net) = token
        /\ (hasStore /\ ~Registered(token)) => ~Refreshable(store, token)

\* a token superseded by a later one of the same user, whose entry
\* revoke_user_tokens then deleted: both are verified, neither is exchanged
C31_Witness ==
    \E old \in superseded, new \in refreshTokens \ superseded :
        /\ hasStore
        /\ old["user_id"] = new["user_id"]
        /\ RefreshKey(old["user_id"]) \notin DOMAIN store
        /\ Unexpired(old, now) /\ Unexpired(new, now)
        /\ verify_token(store, old, "refresh", "ok")
        /\ verify_token(store, new, "refresh", "ok")
        /\ ~Refreshable(store, old) /\ ~Refreshable(store, new)

\* the keyspace as it is, and with a lock record beside the tokens' keys
WithLockRecord(st) == Put(st, <<"lock", "X">>, Entry(1, 1))

\* after differs from before at most in key
OnlyKey(before, after, key) ==
    \A k \in (DOMAIN before \cup DOMAIN after) \ {key} :
        k \in DOMAIN before /\ k \in DOMAIN after /\ before[k] = after[k]

\* C32: generate_refresh_token(user_id) and revoke_user_tokens(user_id) change
\* at most the key refresh_token:{user_id}, and revoke_token(token) at most the
\* key token_blacklist:{token}: the registry entries of the other users, the
\* blacklist entries of the other strings and the lock records are as before,
\* whatever the outcome of the round trip.
C32_OnlyOwnKey ==
    \A st \in {store, WithLockRecord(store)}, net \in WriteNet :
        /\ \A user_id \in Subjects :
              /\ OnlyKey(st, generate_refresh_token(st, user_id, net).st,
                         RefreshKey(user_id))
              /\ OnlyKey(st, revoke_user_tokens(st, user_id, net).st,
                         RefreshKey(user_id))
        /\ \A token \in Presentable \cup {NoExpiry} :
              OnlyKey(st, revoke_token(st, token, net).st, BlacklistKey(token))

\* both users are registered and one of the tokens is blacklisted; each of the
\* three calls changes the keyspace
C32_Witness ==
    /\ hasStore
    /\ \A user_id \in Subjects : RefreshKey(user_id) \in DOMAIN store
    /\ \E token \in refreshTokens :
          /\ BlacklistKey(token) \in DOMAIN store
          /\ \E other \in refreshTokens \ {token} :
                /\ revoke_token(store, other, "ok").st # store
                /\ revoke_user_tokens(store, other["user_id"], "ok").st # store
                /\ generate_refresh_token(store, token["user_id"], "ok").st # store

-----------------------------------------------------------------------------
(* Properties of the lock *)

Winners == {c \in Callers : lockCall[c].ret # NoId}

\* two overlapping acquire_lock calls on the free lock have both returned, and
\* no record a call wrote has been released or has expired
RaceOver ==
    /\ \A c \in Callers : Returned(c) /\ lockCall[c].raced
    /\ \A c \in Winners : ~lockCall[c].gone

C5_WrongIdentifierReleasesNothing ==
    \A identifier \in Identifiers, net \in NetOutcomes :
        ~Held(store, identifier) =>
            LET r == release_lock(store, LockName, identifier, net)
            IN ~r.ret /\ r.st = store

\* a caller's record has expired or was released and the other caller holds
\* the lock under its own identifier
C5_Witness ==
    \E c \in Callers :
        /\ lockCall[c].ret # NoId
        /\ lockCall[c].gone
        /\ now > 0
        /\ lockCall[Other(c)].ret # NoId
        /\ Held(store, lockCall[Other(c)].ret)
        /\ ~release_lock(store, LockName, lockCall[c].ret, "ok").ret

Deleted(st, lock_name) == LockKey(lock_name) \notin DOMAIN st

\* C6 as stated: release_lock returns True exactly when the stored value
\* equalled the identifier and the key was deleted, in that one step.
C6_TrueExactlyWhenDeleted ==
    \A identifier \in Identifiers, net \in NetOutcomes :
        LET r == release_lock(store, LockName, identifier, net)
        IN r.ret <=> (Held(store, identifier) /\ Deleted(r.st, LockName))

\* C6 as amended: release_lock changes the keyspace only by deleting the record
\* that holds the identifier; it returns True only if it did; and when the
\* reply reaches the caller it returns True exactly when it did.
C6_CompareAndDelete ==
    \A identifier \in Identifiers, net \in NetOutcomes :
        LET r == release_lock(store, LockName, identifier, net)
        IN /\ r.st # store =>
                (Held(store, identifier) /\ r.st = Drop(store, LockKey(LockName)))
           /\ r.ret => (Held(store, identifier) /\ Deleted(r.st, LockName))
           /\ net = "ok" =>
                (r.ret <=> (Held(store, identifier) /\ Deleted(r.st, LockName)))
           /\ (net = "ok" /\ Held(store, identifier)) => r.ret

\* a release has deleted the record of a call before any time has passed, and
\* the other caller holds a record that release_lock would delete
C6_Witness ==
    \E c \in Callers :
        /\ lockCall[c].ret # NoId
        /\ lockCall[c].gone
        /\ now = 0
        /\ Held(store, lockCall[Other(c)].ret)
        /\ release_lock(store, LockName, lockCall[Other(c)].ret, "ok").ret

\* what is left of a call: the passes of the loop to come, twice, and one more
\* while the SET of the current pass is still to be sent
Left(call) ==
    IF call.status \in {"idle", "returned"} THEN 0
    ELSE 2 * (call.retry_times - call.i) + (IF call.status = "trying" THEN 1 ELSE 0)

\* what a returned call has done
AttemptsAccounted ==
    \A c \in Callers :
        LET call == lockCall[c]
        IN /\ call.i <= call.retry_times
           /\ InFlight(c) => (call.status = "sleeping" => call.i < call.retry_times)
           /\ (InFlight(c) /\ call.status = "sleeping")
                 => call.wake <= now + call.retry_delay
           /\ (Returned(c) /\ call.ret = NoId /\ ~call.raised)
                 => call.i = call.retry_times
           /\ (Returned(c) /\ call.raised) => (call.ret = NoId /\ call.i < call.retry_times)
           /\ (Returned(c) /\ call.ret # NoId) => call.i < call.retry_times

\* a step of a call in flight brings it nearer to its return: it answers, or
\* goes to sleep after a failed SET, or wakes up for the next pass when its
\* sleep is over; an exception ends the call in the step that raises it
CallAdvances ==
    \A c \in Callers :
        (InFlight(c) /\ lockCall'[c] # lockCall[c] /\ lockCall'[c].id = lockCall[c].id
               /\ lockCall'[c].status # lockCall[c].status)
            => /\ Left(lockCall'[c]) < Left(lockCall[c])
               /\ (lockCall[c].status = "sleeping") => now >= lockCall[c].wake
               /\ (lockCall'[c].status = "sleeping")
                     => (store' = store /\ lockCall'[c].wake = now + lockCall[c].retry_delay)
               /\ lockCall'[c].raised => (Returned(c)' /\ lockCall'[c].ret = NoId)

\* C23: acquire_lock makes at most retry_times attempts, sleeps retry_delay
\* after each failed one, returns None when all have failed and at once when
\* redis-py raises; every step brings it nearer to its return, and while the
\* clock runs it does return.
C23_AcquireTerminates ==
    /\ []AttemptsAccounted
    /\ [][CallAdvances]_vars
    /\ \A c \in Callers : InFlight(c) ~> (Returned(c) \/ now = MaxTick)

\* a call has made its two attempts against the lock the other caller holds
\* and has returned None
C23_Witness ==
    \E c \in Callers :
        /\ Returned(c) /\ lockCall[c].ret = NoId /\ ~lockCall[c].raised
        /\ lockCall[c].retry_times = 2 /\ lockCall[c].i = 2
        /\ Held(store, lockCall[Other(c)].ret)
        /\ now < MaxTick

\* an attempt against a record that is there leaves the keyspace as it is and
\* is not answered OK, whatever identifier and timeout it carries
HeldIsKept ==
    \A identifier \in Identifiers, timeout \in Timeouts, net \in NetOutcomes :
        LockKey(LockName) \in DOMAIN store =>
            LET r == acquire_attempt(store, LockName, identifier, timeout, net)
            IN r.st = store /\ ~r.got

\* the identifiers of the calls differ from one another and from those to come
IdentifiersFresh ==
    /\ \A c \in Callers : lockCall[c].id < nextId /\ lockCall[c].ret \in {NoId, lockCall[c].id}
    /\ \A c \in Callers :
          lockCall[c].id # NoId => lockCall[Other(c)].id # lockCall[c].id
    /\ LockKey(LockName) \in DOMAIN store => store[LockKey(LockName)].val < nextId

\* the step in which a call returns its identifier has found the key absent
\* and has stored the identifier under it for timeout seconds
ReturnedIsStored ==
    \A c \in Callers :
        (InFlight(c) /\ Returned(c)' /\ lockCall'[c].ret # NoId)
            => /\ LockKey(LockName) \notin DOMAIN store
               /\ lockCall'[c].ret = lockCall[c].id
               /\ store' = Put(store, LockKey(LockName),
                                [val |-> lockCall[c].id,
                                 expireAt |-> now + lockCall[c].timeout * TicksPerSec,
                                 persist |-> FALSE])

\* C24: an acquire_lock attempt against an existing record changes nothing;
\* an identifier acquire_lock returns differs from the identifier of every
\* other call and was stored under the lock key with TTL = timeout by the step
\* that returned it.
C24_AcquireOnlyWhenAbsent ==
    /\ [](HeldIsKept /\ IdentifiersFresh)
    /\ [][ReturnedIsStored]_vars

\* a caller holds the lock under the identifier it was given while the other
\* caller's attempt, with another identifier, has been refused
C24_Witness ==
    \E c \in Callers :
        /\ Returned(c) /\ lockCall[c].ret # NoId
        /\ Held(store, lockCall[c].ret)
        /\ lockCall[Other(c)].status = "sleeping"
        /\ lockCall[Other(c)].id \notin {NoId, lockCall[c].ret}
        /\ ~acquire_attempt(store, LockName, lockCall[Other(c)].id, 2, "ok").got

\* a record is there only during the timeout it was stored with
RecordWithinTtl ==
    LockKey(LockName) \in DOMAIN store =>
        /\ ~store[LockKey(LockName)].persist
        /\ now < store[LockKey(LockName)].expireAt

\* against an absent key an answered attempt is granted
FreeIsGranted ==
    LockKey(LockName) \notin DOMAIN store =>
        \A identifier \in Identifiers, timeout \in Timeouts :
            LET r == acquire_attempt(store, LockName, identifier, timeout, "ok")
            IN r.got /\ Held(r.st, identifier)

\* a step that removes or changes the record is the expiry of its TTL or a
\* release_lock with the identifier it holds
RemovedByReleaseOrExpiry ==
    LET key == LockKey(LockName)
    IN (key \in DOMAIN store /\ (key \notin DOMAIN store' \/ store'[key] # store[key]))
          => /\ key \notin DOMAIN store'
             /\ \/ now' = now + 1 /\ store[key].expireAt <= now'
                \/ /\ now' = now
                   /\ \E identifier \in Identifiers, net \in NetOutcomes :
                         /\ Held(store, identifier)
                         /\ store' = release_lock(store, LockName, identifier, net).st

\* C25: the lock record is removed only by release_lock with its identifier or
\* by the expiry of its TTL, it is never there after its TTL, and an answered
\* attempt against the absent key is granted: a holder that never releases
\* blocks the others for timeout seconds at most.
C25_NoDeadlock ==
    /\ [](RecordWithinTtl /\ FreeIsGranted)
    /\ [][RemovedByReleaseOrExpiry]_vars

\* the TTL of the holder's record ends with the next tick, and the attempt the
\* sleeping caller then makes is granted
C25_Witness ==
    \E c \in Callers :
        LET other == lockCall[Other(c)]
            later == Purge(store, now + 1)
        IN /\ Held(store, lockCall[c].ret)
           /\ store[LockKey(LockName)].expireAt = now + 1
           /\ now < MaxTick
           /\ other.status = "sleeping" /\ other.wake <= now + 1
           /\ other.i + 1 < other.retry_times
           /\ acquire_attempt(later, LockName, other.id, other.timeout, "ok").got

\* the calls that returned an identifier whose record is still the one stored
Holders == {c \in Callers : lockCall[c].ret # NoId /\ Held(store, lockCall[c].ret)}

\* a holder has the lock to itself: every attempt with another identifier is
\* refused and changes nothing, and the other call's identifier, if it has
\* one, is of a record that is gone
HolderExcludes ==
    \A c \in Holders :
        /\ \A identifier \in Identifiers \ {lockCall[c].ret}, timeout \in Timeouts,
              net \in NetOutcomes :
              LET r == acquire_attempt(store, LockName, identifier, timeout, net)
              IN r.st = store /\ ~r.got
        /\ lockCall[Other(c)].ret # NoId => lockCall[Other(c)].gone
        /\ ~lockCall[c].gone

\* C33 as stated: while the holder's timeout has not elapsed, a release by
\* the holder that did not return True leaves every other attempt refused
C33_HeldUntilReleaseReturnsTrue ==
    \A c \in Holders, net \in NetOutcomes :
        LET r == release_lock(store, LockName, lockCall[c].ret, net)
        IN ~r.ret =>
              \A identifier \in Identifiers \ {lockCall[c].ret} :
                  ~acquire_attempt(r.st, LockName, identifier, 1, "ok").got

\* a release_lock by the holder ends the hold exactly when the script ran on
\* the server, and returns True only then
ReleaseEndsHold ==
    \A c \in Holders, net \in NetOutcomes :
        LET r == release_lock(store, LockName, lockCall[c].ret, net)
        IN /\ Applied(net) <=> Deleted(r.st, LockName)
           /\ ~Applied(net) => r.st = store
           /\ r.ret => Applied(net)

\* once the record of a call that returned an identifier is gone, release_lock
\* with that identifier returns False and deletes nothing, and an answered
\* attempt of another caller is granted as soon as the key is absent
GoneIsRefused ==
    \A c \in Callers :
        (lockCall[c].ret # NoId /\ lockCall[c].gone) =>
            /\ ~Held(store, lockCall[c].ret)
            /\ \A net \in NetOutcomes :
                  LET r == release_lock(store, LockName, lockCall[c].ret, net)
                  IN ~r.ret /\ r.st = store

\* no call is given an identifier while another call holds the lock
NoSecondWinner ==
    \A c \in Holders :
        lockCall'[Other(c)].ret \in {NoId, lockCall[Other(c)].ret}

\* C33: while the record of a call that returned an identifier is stored, no
\* other acquire_lock attempt succeeds; the record ends only with its TTL,
\* timeout seconds after it was stored, or when a release_lock with its
\* identifier runs on the server (which returns True, or False if the reply is
\* lost); once it is gone another caller is granted the lock, and a
\* release_lock with the old identifier returns False and deletes nothing.
C33_MutualExclusion ==
    /\ [](HolderExcludes /\ ReleaseEndsHold /\ GoneIsRefused /\ RecordWithinTtl
            /\ FreeIsGranted)
    /\ [][NoSecondWinner /\ RemovedByReleaseOrExpiry]_vars

\* the first holder's record is gone, the other caller has been given the
\* lock and holds it, and the first holder's release returns False
C33_Witness ==
    \E c \in Callers :
        /\ lockCall[c].ret # NoId /\ lockCall[c].gone
        /\ Other(c) \in Holders
        /\ ~release_lock(store, LockName, lockCall[c].ret, "ok").ret
        /\ release_lock(store, LockName, lockCall[c].ret, "ok").st = store

\* C34: when acquire_lock has returned None, no lock record carries the
\* identifier that call drew, also when the call ended on an exception of the
\* client.
C34_NoneLeavesNoRecord ==
    \A c \in Callers :
        (Returned(c) /\ lockCall[c].ret = NoId /\ lockCall[c].id # NoId)
            => ~Held(store, lockCall[c].id)

=============================================================================
